---- MODULE Spec2Model ----
(***************************************************************************)
(* Model of the dqn package: the two-layer Q-network (qnetwork.go), the    *)
(* agent (train.go), the replay buffer (replaybuffer.go) and Normalize     *)
(* (utils.go).                                                             *)
(*                                                                         *)
(* float64 values are modelled as exact rationals <<n, d>> in lowest terms *)
(* with d > 0, extended with the IEEE non-finite values +Inf = <<1, 0>>,   *)
(* -Inf = <<-1, 0>> and NaN = <<0, 0>>.  Rounding and the sign of zero are *)
(* not modelled.  Slices are references: a slice is an address into heap,  *)
(* and two holders of the same address see each other's writes.            *)
(***************************************************************************)
EXTENDS Integers, Sequences, FiniteSets, TLC

VARIABLES qNetwork, gamma, epsilon, learningRate, buffer, size, heap,
          added, updates, ret

vars == <<qNetwork, gamma, epsilon, learningRate, buffer, size, heap,
          added, updates, ret>>

(***************************************************************************)
(* float64 arithmetic                                                      *)
(***************************************************************************)
Abs(n) == IF n < 0 THEN -n ELSE n

Sign(n) == IF n < 0 THEN -1 ELSE IF n > 0 THEN 1 ELSE 0

RECURSIVE GCD(_, _)
GCD(a, b) == IF b = 0 THEN a ELSE GCD(b, a % b)

Norm(n, d) ==
    IF d = 0 THEN <<Sign(n), 0>>
    ELSE LET g == GCD(Abs(n), d) IN <<n \div g, d \div g>>

Float(i) == <<i, 1>>

Frac(n, d) == Norm(n, d)

NaN == <<0, 0>>

IsNaN(x) == x = NaN

IsFinite(x) == x[2] # 0

\* x + y
FAdd(x, y) ==
    IF IsNaN(x) \/ IsNaN(y) THEN NaN
    ELSE IF ~IsFinite(x) /\ ~IsFinite(y) THEN (IF x = y THEN x ELSE NaN)
    ELSE IF ~IsFinite(x) THEN x
    ELSE IF ~IsFinite(y) THEN y
    ELSE LET l == (x[2] \div GCD(x[2], y[2])) * y[2]
         IN  Norm(x[1] * (l \div x[2]) + y[1] * (l \div y[2]), l)

FNeg(x) == <<-x[1], x[2]>>

\* x - y
FSub(x, y) == FAdd(x, FNeg(y))

\* x * y (Inf * 0 = NaN)
FMul(x, y) ==
    IF ~IsFinite(x) \/ ~IsFinite(y) THEN <<Sign(x[1]) * Sign(y[1]), 0>>
    ELSE LET g1 == GCD(Abs(x[1]), y[2])
             g2 == GCD(Abs(y[1]), x[2])
         IN  Norm((x[1] \div g1) * (y[1] \div g2),
                  (x[2] \div g2) * (y[2] \div g1))

\* 1 / y (1 / 0 = +Inf: the zero of the model is +0)
Recip(y) ==
    IF y[1] > 0 THEN <<y[2], y[1]>>
    ELSE IF y[1] < 0 THEN <<-y[2], -y[1]>>
    ELSE IF y[2] # 0 THEN <<1, 0>>
    ELSE NaN

\* x / y (x / 0 = +-Inf, 0 / 0 = NaN)
FDiv(x, y) == FMul(x, Recip(y))

\* x < y (false when either is NaN)
FLess(x, y) ==
    IF IsNaN(x) \/ IsNaN(y) THEN FALSE
    ELSE IF ~IsFinite(x) /\ ~IsFinite(y) THEN x[1] < y[1]
    ELSE IF ~IsFinite(x) THEN x[1] < 0
    ELSE IF ~IsFinite(y) THEN y[1] > 0
    ELSE LET l == (x[2] \div GCD(x[2], y[2])) * y[2]
         IN  x[1] * (l \div x[2]) < y[1] * (l \div y[2])

\* x > y
FGreater(x, y) == FLess(y, x)

(***************************************************************************)
(* gonum mat operations used by the network.  A VecDense is a sequence, a  *)
(* Dense a sequence of rows.                                               *)
(***************************************************************************)
\* A sequence given by a rule, as the tuple of its elements.
Tuple(f) == f \o <<>>

RECURSIVE DotFrom(_, _, _)
DotFrom(a, b, j) ==
    IF j > Len(a) THEN Float(0)
    ELSE FAdd(FMul(a[j], b[j]), DotFrom(a, b, j + 1))

\* receiver.MulVec(m, x)
MulVec(m, x) == Tuple([i \in 1..Len(m) |-> DotFrom(m[i], x, 1)])

\* receiver.AddVec(a, b)
AddVec(a, b) == Tuple([i \in 1..Len(a) |-> FAdd(a[i], b[i])])

\* receiver.SubVec(a, b)
SubVec(a, b) == Tuple([i \in 1..Len(a) |-> FSub(a[i], b[i])])

\* receiver.MulElemVec(a, b)
MulElemVec(a, b) == Tuple([i \in 1..Len(a) |-> FMul(a[i], b[i])])

\* receiver.AddScaledVec(a, alpha, b) = a + alpha * b
AddScaledVec(a, alpha, b) ==
    Tuple([i \in 1..Len(a) |-> FAdd(a[i], FMul(alpha, b[i]))])

\* Outer with its operands exchanged: alpha * y * x^T.
OuterTransposed(alpha, x, y) ==
    Tuple([i \in 1..Len(y) |->
            Tuple([j \in 1..Len(x) |-> FMul(alpha, FMul(y[i], x[j]))])])

\* receiver.Outer(alpha, x, y) = alpha * x * y^T
Outer(alpha, x, y) ==
    Tuple([i \in 1..Len(x) |->
            Tuple([j \in 1..Len(y) |-> FMul(alpha, FMul(x[i], y[j]))])])

\* receiver.Scale(f, a) = f * a: the receiver's old elements are overwritten
Scale(f, a) ==
    Tuple([i \in 1..Len(a) |->
            Tuple([j \in 1..Len(a[i]) |-> FMul(f, a[i][j])])])

\* receiver.Add(a, b), named MatAdd here (Add is the replay buffer's method)
MatAdd(a, b) ==
    Tuple([i \in 1..Len(a) |->
            Tuple([j \in 1..Len(a[i]) |-> FAdd(a[i][j], b[i][j])])])

\* m.T()
T(m) ==
    Tuple([j \in 1..Len(m[1]) |-> Tuple([i \in 1..Len(m) |-> m[i][j]])])

(***************************************************************************)
(* qnetwork.go                                                             *)
(***************************************************************************)
\* NewQNetwork(inputSize, hiddenSize, outputSize, activation): the sizes the
\* networks of the agent and policy specifications are built with.  A network
\* is a record of the struct's fields inputSize, hiddenSize, outputSize, w1,
\* b1, w2 and b2.
InputSize == 2

HiddenSize == 2

OutputSize == 2

ReLU(x) == IF FGreater(x, Float(0)) THEN x ELSE Float(0)

\* q.activation: the networks of the model are built with ReLU.
activation(x) == ReLU(x)

\* The step h of applyDerivative.
DerivStep == Frac(1, 10000)

\* applyDerivative(v, activation): the symmetric finite difference at each
\* element of v.
applyDerivative(v) ==
    Tuple([i \in 1..Len(v) |->
            FDiv(FSub(activation(FAdd(v[i], DerivStep)),
                      activation(FSub(v[i], DerivStep))),
                 FMul(Float(2), DerivStep))])

\* h before the activation is applied: w1 * x + b1.
PreActivation(q, x) == AddVec(MulVec(q.w1, x), q.b1)

\* The first layer as Predict and Backward both compute it:
\* h = activation(w1 * x + b1), element-wise.
Hidden(q, x) ==
    LET pre == PreActivation(q, x)
    IN  Tuple([i \in 1..Len(pre) |-> activation(pre[i])])

\* Predict(state): panics when len(state) != inputSize, else w2 * h + b2.
Predict(q, state) ==
    IF Len(state) # q.inputSize
    THEN [panic |-> "DimensionMismatch", out |-> <<>>]
    ELSE [panic |-> "none",
          out |-> AddVec(MulVec(q.w2, Hidden(q, state)), q.b2)]

AllTensors == {"w1", "b1", "w2", "b2"}

\* Lines 204-206 of Backward: dH = (w2^T * dOut) (*) applyDerivative(h),
\* with h the activated hidden vector.
HiddenError(q, h, dOut) ==
    MulElemVec(MulVec(T(q.w2), dOut), applyDerivative(h))

\* Backward(state, prediction, target, learningRate).  gonum panics with
\* ErrShape on mismatched operands (MulVec at line 187, SubVec at line 197),
\* before any parameter is assigned; the four assignments follow in the
\* order w2, b2, w1, b1.
Backward(q, state, prediction, target, lr) ==
    IF \/ Len(state) # q.inputSize
       \/ Len(prediction) # Len(target)
       \/ Len(prediction) # q.outputSize
    THEN [panic |-> "ErrShape", q |-> q, wrote |-> {}]
    ELSE
    LET x    == state
        h    == Hidden(q, x)
        dOut == SubVec(prediction, target)
        dW2  == Outer(Float(1), dOut, h)
        dB2  == dOut
        dH   == HiddenError(q, h, dOut)
        dW1  == Outer(Float(1), dH, x)
        dB1  == dH
        w2a  == Scale(FNeg(lr), dW2)
        w2b  == MatAdd(w2a, dW2)
        b2b  == AddScaledVec(q.b2, FNeg(lr), dB2)
        w1a  == Scale(FNeg(lr), dW1)
        w1b  == MatAdd(w1a, dW1)
        b1b  == AddScaledVec(q.b1, FNeg(lr), dB1)
    IN  [panic |-> "none",
         q     |-> [q EXCEPT !.w1 = w1b, !.b1 = b1b, !.w2 = w2b, !.b2 = b2b],
         wrote |-> AllTensors]

(***************************************************************************)
(* train.go                                                                *)
(***************************************************************************)
RECURSIVE MaxFrom(_, _, _)
MaxFrom(arr, i, maxVal) ==
    IF i > Len(arr) THEN maxVal
    ELSE MaxFrom(arr, i + 1, IF FGreater(arr[i], maxVal) THEN arr[i] ELSE maxVal)

\* Max(arr): left-to-right scan starting from arr[0].
Max(arr) == MaxFrom(arr, 1, arr[1])

RECURSIVE ArgmaxFrom(_, _, _, _)
ArgmaxFrom(arr, i, maxIdx, maxVal) ==
    IF i > Len(arr) THEN maxIdx
    ELSE IF FGreater(arr[i], maxVal)
         THEN ArgmaxFrom(arr, i + 1, i - 1, arr[i])
         ELSE ArgmaxFrom(arr, i + 1, maxIdx, maxVal)
RECURSIVE ArgmaxLastFrom(_, _, _, _)
ArgmaxLastFrom(arr, i, maxIdx, maxVal) ==
    IF i > Len(arr) THEN maxIdx
    ELSE IF ~FLess(arr[i], maxVal)
         THEN ArgmaxLastFrom(arr, i + 1, i - 1, arr[i])
         ELSE ArgmaxLastFrom(arr, i + 1, maxIdx, maxVal)

\* Argmax with >= for >: an equal value replaces the running maximum.
ArgmaxLast(arr) == ArgmaxLastFrom(arr, 1, 0, arr[1])

\* Argmax(arr): the 0-based index found by the left-to-right scan.
Argmax(arr) == ArgmaxFrom(arr, 1, 0, arr[1])
\* BellmanTarget with the terminal case dropped: the bootstrap term is
\* added whether or not done is set.
BellmanTargetIgnoreDone(nextQValues, maxNextQValue, action, reward, done, g) ==
    [nextQValues EXCEPT
        ![action + 1] = FAdd(Float(reward), FMul(g, maxNextQValue))]

\* Lines 32-37 of Train: target is a copy of nextQValues with component
\* action (0-based) set to reward, plus gamma * maxNextQValue unless done.
BellmanTarget(nextQValues, maxNextQValue, action, reward, done, g) ==
    LET t0 == [nextQValues EXCEPT ![action + 1] = Float(reward)]
    IN  IF ~done
        THEN [t0 EXCEPT ![action + 1] = FAdd(@, FMul(g, maxNextQValue))]
        ELSE t0

NoTarget == <<>>
\* Train with the update moved ahead of the prediction for state: the
\* network is stepped on nextState's prediction, and a short state is only
\* noticed afterwards.
TrainEarlyUpdate(q, g, lr, state, nextState, action, reward, done) ==
    LET next == Predict(q, nextState)
    IN  IF next.panic # "none"
        THEN [panic |-> next.panic, q |-> q, wrote |-> {}, target |-> NoTarget]
        ELSE
        IF action < 0 \/ action >= Len(next.out)
        THEN [panic |-> "IndexOutOfRange", q |-> q, wrote |-> {},
              target |-> NoTarget]
        ELSE
        LET target == BellmanTarget(next.out, Max(next.out), action, reward,
                                    done, g)
            b      == Backward(q, nextState, next.out, target, lr)
            cur    == Predict(b.q, state)
        IN  [panic |-> cur.panic, q |-> b.q, wrote |-> b.wrote,
             target |-> target]

\* Train(state, nextState, action, reward, done) on an agent with network
\* q, discount g and step size lr.  Every panic (Predict's, the index
\* expression target[action]) comes before the call of Backward.
Train(q, g, lr, state, nextState, action, reward, done) ==
    LET next == Predict(q, nextState)
    IN  IF next.panic # "none"
        THEN [panic |-> next.panic, q |-> q, wrote |-> {}, target |-> NoTarget]
        ELSE
        IF action < 0 \/ action >= Len(next.out)
        THEN [panic |-> "IndexOutOfRange", q |-> q, wrote |-> {},
              target |-> NoTarget]
        ELSE
        LET target == BellmanTarget(next.out, Max(next.out), action, reward,
                                    done, g)
            cur    == Predict(q, state)
        IN  IF cur.panic # "none"
            THEN [panic |-> cur.panic, q |-> q, wrote |-> {},
                  target |-> NoTarget]
            ELSE LET b == Backward(q, state, cur.out, target, lr)
                 IN  [panic |-> b.panic, q |-> b.q, wrote |-> b.wrote,
                      target |-> target]

\* EpsilonGreedyPolicy(state, numActions); r is what rand.Float64() returns
\* and k what rand.Intn(numActions) returns.  rand.Intn panics when its
\* argument is not positive.
EpsilonGreedyPolicy(q, eps, state, numActions, r, k) ==
    IF FLess(r, eps)
    THEN IF numActions <= 0
         THEN [panic |-> "InvalidIntn", value |-> -1, branch |-> "random"]
         ELSE [panic |-> "none", value |-> k, branch |-> "random"]
    ELSE LET p == Predict(q, state)
         IN  IF p.panic # "none"
             THEN [panic |-> p.panic, value |-> -1, branch |-> "greedy"]
             ELSE [panic |-> "none", value |-> Argmax(p.out),
                   branch |-> "greedy"]

(***************************************************************************)
(* replaybuffer.go and utils.go                                            *)
(***************************************************************************)
\* An Experience value: State and NextState are slices (addresses into
\* heap), Action and Reward ints, Done a bool.
Experience(s, ns, a, r, d) ==
    [State |-> s, NextState |-> ns, Action |-> a, Reward |-> r, Done |-> d]
\* Add with > for >=: the oldest entry is dropped one insertion too late.
AddOffByOne(buf, sz, exp) ==
    IF Len(buf) > sz
    THEN [panic |-> "none", buffer |-> Append(Tail(buf), exp)]
    ELSE [panic |-> "none", buffer |-> Append(buf, exp)]

\* Add(exp) on a buffer buf of capacity sz.  rb.buffer[1:] panics (slice
\* bounds out of range) when the buffer is empty.
Add(buf, sz, exp) ==
    IF Len(buf) >= sz
    THEN IF Len(buf) = 0
         THEN [panic |-> "SliceBounds", buffer |-> buf]
         ELSE [panic |-> "none", buffer |-> Append(Tail(buf), exp)]
    ELSE [panic |-> "none", buffer |-> Append(buf, exp)]
\* Sample with an early return on an empty buffer: the zero-valued batch
\* make allocated is returned.
SampleEarlyReturn(buf, batchSize, draws) ==
    IF batchSize < 0
    THEN [panic |-> "MakeSliceLen", sample |-> <<>>]
    ELSE IF Len(buf) = 0
    THEN [panic |-> "none",
          sample |-> Tuple([i \in 1..batchSize |->
                              Experience(<<>>, <<>>, 0, 0, FALSE)])]
    ELSE [panic |-> "none",
          sample |-> Tuple([i \in 1..batchSize |-> buf[draws[i] + 1]])]

\* Sample without replacement's limit: no more experiences are returned
\* than the buffer holds.
SampleTruncated(buf, batchSize, draws) ==
    IF batchSize < 0
    THEN [panic |-> "MakeSliceLen", sample |-> <<>>]
    ELSE IF batchSize > 0 /\ Len(buf) = 0
    THEN [panic |-> "InvalidIntn", sample |-> <<>>]
    ELSE [panic |-> "none",
          sample |-> Tuple([i \in 1..(IF batchSize < Len(buf) THEN batchSize
                                      ELSE Len(buf)) |-> buf[draws[i] + 1]])]

\* Sample(batchSize); draws[i] is what the i-th rand.Intn(len(rb.buffer))
\* returns.  make panics on a negative length; rand.Intn(0) panics, in the
\* first iteration of the loop.
Sample(buf, batchSize, draws) ==
    IF batchSize < 0
    THEN [panic |-> "MakeSliceLen", sample |-> <<>>]
    ELSE IF batchSize > 0 /\ Len(buf) = 0
    THEN [panic |-> "InvalidIntn", sample |-> <<>>]
    ELSE [panic |-> "none",
          sample |-> Tuple([i \in 1..batchSize |-> buf[draws[i] + 1]])]

RECURSIVE NormMaxFrom(_, _, _)
NormMaxFrom(state, i, maxVal) ==
    IF i > Len(state) THEN maxVal
    ELSE NormMaxFrom(state, i + 1,
                     IF FGreater(state[i], maxVal) THEN state[i] ELSE maxVal)

\* Normalize(state): the elements of state after the call; the scan for
\* the maximum starts from 0, and the division is done in place.
Normalize(state) ==
    LET maxVal == NormMaxFrom(state, 1, Float(0))
    IN  Tuple([i \in 1..Len(state) |-> FDiv(state[i], maxVal)])

(***************************************************************************)
(* Bounds and input sets                                                   *)
(***************************************************************************)
\* Train and Backward calls that update the network, per behaviour.
MaxUpdates == 1

\* Add calls per behaviour of the buffer specification.
MaxAdds == 3

\* Add calls per behaviour of the agent specification.
MaxAgentAdds == 1

\* Largest capacity a buffer is constructed with.
MaxCap == 2

\* Largest batch size asked of Sample.
MaxBatch == 2

\* The caller's slices: two state vectors of length inputSize and one that
\* is too short.
InitHeap ==
    << <<Float(1), Float(2)>>, <<Float(0), Float(-1)>>, <<Float(1)>> >>

Addrs == DOMAIN InitHeap

GoodAddrs == {a \in Addrs : Len(InitHeap[a]) = InputSize}

\* Xavier initialization draws each weight as rand.Float64()*2*bound - bound
\* with bound = sqrt(6 / (fanIn + fanOut)): a value w with -bound <= w < bound.
InXavier(w, fanIn, fanOut) ==
    /\ IsFinite(w)
    /\ w[1] * w[1] * (fanIn + fanOut) <= 6 * w[2] * w[2]
    /\ ~(w[1] > 0 /\ w[1] * w[1] * (fanIn + fanOut) = 6 * w[2] * w[2])

NetA ==
    [inputSize |-> 2, hiddenSize |-> 2, outputSize |-> 2,
     w1 |-> << <<Float(1), Float(-1)>>, <<Float(0), Float(1)>> >>,
     b1 |-> <<Float(0), Float(0)>>,
     w2 |-> << <<Float(1), Frac(1, 2)>>, <<Float(-1), Float(1)>> >>,
     b2 |-> <<Float(0), Frac(1, 2)>>]

NetB ==
    [inputSize |-> 2, hiddenSize |-> 2, outputSize |-> 2,
     w1 |-> << <<Frac(1, 2), Float(0)>>, <<Float(0), Frac(1, 2)>> >>,
     b1 |-> <<Float(0), Frac(-1, 2)>>,
     w2 |-> << <<Float(1), Float(1)>>, <<Float(1), Float(1)>> >>,
     b2 |-> <<Float(0), Float(0)>>]

\* The networks NewQNetwork may return that the model starts from.
Nets ==
    {q \in {NetA, NetB} :
        /\ q.inputSize = InputSize /\ q.hiddenSize = HiddenSize
        /\ q.outputSize = OutputSize
        /\ Len(q.w1) = HiddenSize /\ Len(q.b1) = HiddenSize
        /\ Len(q.w2) = OutputSize /\ Len(q.b2) = OutputSize
        /\ \A i \in 1..HiddenSize :
              /\ Len(q.w1[i]) = InputSize
              /\ InXavier(q.b1[i], InputSize, HiddenSize)
              /\ \A j \in 1..InputSize :
                    InXavier(q.w1[i][j], InputSize, HiddenSize)
        /\ \A i \in 1..OutputSize :
              /\ Len(q.w2[i]) = HiddenSize
              /\ InXavier(q.b2[i], HiddenSize, OutputSize)
              /\ \A j \in 1..HiddenSize :
                    InXavier(q.w2[i][j], HiddenSize, OutputSize)}

\* NewQNetwork(1, 2, 3, ReLU)
NetThin ==
    [inputSize |-> 1, hiddenSize |-> 2, outputSize |-> 3,
     w1 |-> << <<Float(1)>>, <<Float(-1)>> >>,
     b1 |-> <<Float(0), Frac(1, 2)>>,
     w2 |-> << <<Float(1), Float(0)>>, <<Float(-1), Frac(1, 2)>>,
               <<Frac(1, 2), Float(1)>> >>,
     b2 |-> <<Float(0), Frac(1, 2), Float(0)>>]

\* NewQNetwork(2, 3, 1, ReLU)
NetWide ==
    [inputSize |-> 2, hiddenSize |-> 3, outputSize |-> 1,
     w1 |-> << <<Float(1), Float(-1)>>, <<Float(0), Float(1)>>,
               <<Float(1), Float(0)>> >>,
     b1 |-> <<Float(0), Float(0), Float(-1)>>,
     w2 |-> << <<Float(1), Float(-1), Float(1)>> >>,
     b2 |-> <<Float(0)>>]

\* A float64 of the model.
IsFloat(x) == x \in Int \X Int

\* A VecDense of n elements.
IsVec(v, n) == Len(v) = n /\ \A i \in 1..n : IsFloat(v[i])

\* A Dense of r rows and c columns.
IsMat(m, r, c) == Len(m) = r /\ \A i \in 1..r : IsVec(m[i], c)

\* The tensors have the shapes NewQNetwork allocates them with.
Shaped(q) ==
    /\ IsMat(q.w1, q.hiddenSize, q.inputSize)
    /\ IsVec(q.b1, q.hiddenSize)
    /\ IsMat(q.w2, q.outputSize, q.hiddenSize)
    /\ IsVec(q.b2, q.outputSize)

\* Networks of three shapes, two of them with sizes that all differ, as
\* NewQNetwork may return them for positive sizes.
ShapeNets ==
    {q \in {NetA, NetThin, NetWide} :
        /\ q.inputSize > 0 /\ q.hiddenSize > 0 /\ q.outputSize > 0
        /\ Shaped(q)
        /\ \A i \in 1..q.hiddenSize :
              /\ InXavier(q.b1[i], q.inputSize, q.hiddenSize)
              /\ \A j \in 1..q.inputSize :
                    InXavier(q.w1[i][j], q.inputSize, q.hiddenSize)
        /\ \A i \in 1..q.outputSize :
              /\ InXavier(q.b2[i], q.hiddenSize, q.outputSize)
              /\ \A j \in 1..q.hiddenSize :
                    InXavier(q.w2[i][j], q.hiddenSize, q.outputSize)}

Gammas == {Float(0), Frac(1, 2), Float(1)}

Epsilons == {Float(0), Frac(1, 2), Float(1)}

\* Results of rand.Float64(), which lie in [0, 1).
RandFloats == {Float(0), Frac(1, 2)}

Rewards == {2}

\* Arguments of Train: every well-formed call over the caller's vectors,
\* and calls with a short state, a short nextState or an action outside
\* [0, outputSize).
TrainArgs ==
    [state : GoodAddrs, nextState : GoodAddrs, action : 0..(OutputSize - 1),
     reward : Rewards, done : BOOLEAN]
    \cup
    {[state |-> 3, nextState |-> 1, action |-> 0, reward |-> 2, done |-> FALSE],
     [state |-> 1, nextState |-> 3, action |-> 1, reward |-> 2, done |-> TRUE],
     [state |-> 3, nextState |-> 3, action |-> -1, reward |-> 2, done |-> FALSE],
     [state |-> 1, nextState |-> 2, action |-> OutputSize, reward |-> 2,
      done |-> FALSE],
     [state |-> 2, nextState |-> 1, action |-> -1, reward |-> -1, done |-> TRUE]}

\* Arguments of a direct call of Backward: well-formed calls, one with a
\* short state and one with a short target.
BackwardArgs ==
    [state : GoodAddrs, prediction : {<<Float(1), Float(0)>>},
     target : {<<Float(0), Float(1)>>}, lr : {Float(0), Frac(1, 2)}]
    \cup
    {[state |-> 3, prediction |-> <<Float(1), Float(0)>>,
      target |-> <<Float(0), Float(1)>>, lr |-> Frac(1, 2)],
     [state |-> 1, prediction |-> <<Float(1), Float(0)>>,
      target |-> <<Float(1)>>, lr |-> Frac(1, 2)]}

NumActionsArgs == 0..(OutputSize + 1)

Exps ==
    {Experience(1, 2, 0, 2, FALSE), Experience(2, 1, 1, -1, TRUE),
     Experience(1, 1, 1, 2, FALSE)}

AgentExps == {Experience(1, 2, 0, 2, FALSE)}

(***************************************************************************)
(* State                                                                   *)
(***************************************************************************)
NoArgs == <<>>

\* ret: what the last call was, what it was given and how it ended.
NoRet ==
    [op |-> "none", args |-> NoArgs, panic |-> "none", value |-> <<>>,
     target |-> NoTarget, wrote |-> {}, branch |-> "none"]

\* NewDQN(inputSize, hiddenSize, outputSize, bufferSize, gamma, epsilon,
\* learningRate, activation) with the hyperparameters and capacity drawn
\* from the given sets.
NewDQN(nets, gammas, epsilons, lrs, caps) ==
    /\ qNetwork \in nets
    /\ gamma \in gammas
    /\ epsilon \in epsilons
    /\ learningRate \in lrs
    /\ buffer = <<>>
    /\ size \in caps
    /\ heap = InitHeap
    /\ added = <<>>
    /\ updates = 0
    /\ ret = NoRet

Init == NewDQN(Nets, Gammas, {Frac(1, 2)}, {Frac(1, 2)}, {MaxCap})

InitPolicy == NewDQN(Nets, {Frac(1, 2)}, Epsilons, {Frac(1, 2)}, {MaxCap})

InitShapes == NewDQN(ShapeNets, {Frac(1, 2)}, {Frac(1, 2)}, {Frac(1, 2)}, {MaxCap})

InitBuffer == NewDQN({NetA}, {Frac(1, 2)}, {Frac(1, 2)}, {Frac(1, 2)}, 0..MaxCap)

(***************************************************************************)
(* Calls                                                                   *)
(***************************************************************************)
\* Train that also stores the transition it was given in the replay buffer.
TrainCallStoring ==
    /\ updates < MaxUpdates
    /\ \E a \in TrainArgs :
       \E r \in {Train(qNetwork, gamma, learningRate, heap[a.state],
                      heap[a.nextState], a.action, a.reward, a.done)} :
              /\ qNetwork' = r.q
              /\ updates' = IF r.wrote # {} THEN updates + 1 ELSE updates
              /\ buffer' = IF r.panic = "none"
                           THEN Append(buffer,
                                       Experience(a.state, a.nextState,
                                                  a.action, a.reward, a.done))
                           ELSE buffer
              /\ ret' = [NoRet EXCEPT !.op = "Train", !.args = a,
                                      !.panic = r.panic, !.target = r.target,
                                      !.wrote = r.wrote]
    /\ UNCHANGED <<gamma, epsilon, learningRate, size, heap, added>>

\* d.Train(state, nextState, action, reward, done) with arguments from args.
TrainOf(args) ==
    /\ updates < MaxUpdates
    /\ \E a \in args :
       \E r \in {Train(qNetwork, gamma, learningRate, heap[a.state],
                      heap[a.nextState], a.action, a.reward, a.done)} :
              /\ qNetwork' = r.q
              /\ updates' = IF r.wrote # {} THEN updates + 1 ELSE updates
              /\ ret' = [NoRet EXCEPT !.op = "Train", !.args = a,
                                      !.panic = r.panic, !.target = r.target,
                                      !.wrote = r.wrote]
    /\ UNCHANGED <<gamma, epsilon, learningRate, buffer, size, heap, added>>

TrainCall == TrainOf(TrainArgs)

\* q.Backward(state, prediction, target, learningRate) with arguments from
\* args.
BackwardOf(args) ==
    /\ updates < MaxUpdates
    /\ \E a \in args :
       \E r \in {Backward(qNetwork, heap[a.state], a.prediction, a.target,
                         a.lr)} :
              /\ qNetwork' = r.q
              /\ updates' = IF r.wrote # {} THEN updates + 1 ELSE updates
              /\ ret' = [NoRet EXCEPT !.op = "Backward", !.args = a,
                                      !.panic = r.panic, !.wrote = r.wrote]
    /\ UNCHANGED <<gamma, epsilon, learningRate, buffer, size, heap, added>>

BackwardCall == BackwardOf(BackwardArgs)

\* q.Predict(state) on one of the slices in states.
PredictOf(states) ==
    /\ \E s \in states :
       \E r \in {Predict(qNetwork, heap[s])} :
              ret' = [NoRet EXCEPT !.op = "Predict", !.args = [state |-> s],
                                   !.panic = r.panic, !.value = r.out]
    /\ UNCHANGED <<qNetwork, gamma, epsilon, learningRate, buffer, size, heap,
                   added, updates>>

PredictCall == PredictOf(Addrs)

\* d.EpsilonGreedyPolicy(state, numActions) with state from states and
\* numActions from ns.
EpsilonGreedyPolicyOf(states, ns) ==
    /\ \E s \in states, n \in ns, r \in RandFloats :
       \E k \in IF n > 0 THEN 0..(n - 1) ELSE {-1} :
       \E p \in {EpsilonGreedyPolicy(qNetwork, epsilon, heap[s], n, r, k)} :
              ret' = [NoRet EXCEPT !.op = "EpsilonGreedyPolicy",
                                   !.args = [state |-> s, numActions |-> n],
                                   !.panic = p.panic, !.value = p.value,
                                   !.branch = p.branch]
    /\ UNCHANGED <<qNetwork, gamma, epsilon, learningRate, buffer, size, heap,
                   added, updates>>

EpsilonGreedyPolicyCall == EpsilonGreedyPolicyOf(Addrs, NumActionsArgs)

\* The caller's slices whose length is the network's inputSize.
ValidStates == {s \in Addrs : Len(heap[s]) = qNetwork.inputSize}

\* The vector of n elements that are all c.
Const(n, c) == Tuple([i \in 1..n |-> Float(c)])

\* Arguments Train accepts: states of length inputSize and an action in
\* [0, outputSize).
ValidTrainArgs ==
    [state : ValidStates, nextState : ValidStates,
     action : 0..(qNetwork.outputSize - 1), reward : Rewards, done : BOOLEAN]

\* Arguments Backward accepts: a state of length inputSize, a prediction
\* and a target of length outputSize.
ValidBackwardArgs ==
    [state : ValidStates, prediction : {Const(qNetwork.outputSize, 1)},
     target : {Const(qNetwork.outputSize, 0)}, lr : {Float(0), Frac(1, 2)}]

ValidTrainCall == TrainOf(ValidTrainArgs)

ValidBackwardCall == BackwardOf(ValidBackwardArgs)

ValidPredictCall == PredictOf(ValidStates)

ValidEpsilonGreedyPolicyCall ==
    EpsilonGreedyPolicyOf(ValidStates, 1..qNetwork.outputSize)

\* d.replayBuffer.Add(exp); added keeps, for each Add that returned, the
\* experience and the contents its two slices had at the call.
AddOf(exps, limit) ==
    /\ Len(added) < limit
    /\ \E e \in exps :
       \E r \in {Add(buffer, size, e)} :
              /\ buffer' = r.buffer
              /\ added' = IF r.panic = "none"
                          THEN Append(added, [exp |-> e,
                                              State |-> heap[e.State],
                                              NextState |-> heap[e.NextState]])
                          ELSE added
              /\ ret' = [NoRet EXCEPT !.op = "Add", !.args = [exp |-> e],
                                      !.panic = r.panic]
    /\ UNCHANGED <<qNetwork, gamma, epsilon, learningRate, size, heap, updates>>

AddCall == AddOf(Exps, MaxAdds)

AgentAddCall == AddOf(AgentExps, MaxAgentAdds)

SampleCall ==
    /\ \E k \in -1..MaxBatch :
       \E draws \in IF k > 0 /\ Len(buffer) > 0
                    THEN [1..k -> 0..(Len(buffer) - 1)] ELSE {<<>>} :
       \E r \in {Sample(buffer, k, draws)} :
              ret' = [NoRet EXCEPT !.op = "Sample",
                                   !.args = [batchSize |-> k],
                                   !.panic = r.panic, !.value = r.sample]
    /\ UNCHANGED <<qNetwork, gamma, epsilon, learningRate, buffer, size, heap,
                   added, updates>>

\* Normalize(state) on one of the caller's slices: the slice's elements are
\* overwritten, and the slice itself is what is returned.
NormalizeCall ==
    /\ \E s \in Addrs :
          /\ heap' = [heap EXCEPT ![s] = Normalize(heap[s])]
          /\ ret' = [NoRet EXCEPT !.op = "Normalize", !.args = [state |-> s],
                                  !.value = s]
    /\ UNCHANGED <<qNetwork, gamma, epsilon, learningRate, buffer, size, added,
                   updates>>

\* The agent trained one transition at a time.
Next == TrainCall \/ BackwardCall \/ PredictCall \/ AgentAddCall

Spec == Init /\ [][Next]_vars

\* Action selection on a constructed agent.
NextPolicy == EpsilonGreedyPolicyCall \/ PredictCall

SpecPolicy == InitPolicy /\ [][NextPolicy]_vars

\* Networks of several shapes under calls with valid arguments.
NextShapes ==
    \/ ValidTrainCall
    \/ ValidBackwardCall
    \/ ValidPredictCall
    \/ ValidEpsilonGreedyPolicyCall

SpecShapes == InitShapes /\ [][NextShapes]_vars

\* The replay buffer and the caller's slices.
NextBuffer == AddCall \/ SampleCall \/ NormalizeCall

SpecBuffer == InitBuffer /\ [][NextBuffer]_vars

(***************************************************************************)
(* Properties                                                              *)
(***************************************************************************)
Range(v) == {v[i] : i \in 1..Len(v)}

\* The greatest element of a vector of finite values.
Greatest(v) == CHOOSE m \in Range(v) : \A y \in Range(v) : ~FLess(m, y)

\* The lowest 0-based index at which v attains its greatest value.
LowestMaxIndex(v) ==
    CHOOSE i \in 0..(Len(v) - 1) :
        /\ v[i + 1] = Greatest(v)
        /\ \A j \in 0..(i - 1) : v[j + 1] # Greatest(v)

Min(a, b) == IF a < b THEN a ELSE b

\* C1: the target vector Train hands Backward equals Predict(nextState), as
\* predicted with the weights of before the call, in every component other
\* than action; component action is reward when done, and
\* reward + gamma * max(Predict(nextState)) when not done.
C1_TrainTarget ==
    [][(ret'.op = "Train" /\ ret'.panic = "none") =>
        \A a \in {ret'.args} :
        \A nextQ \in {Predict(qNetwork, heap[a.nextState]).out} :
            /\ Len(ret'.target) = Len(nextQ)
            /\ \A i \in 1..Len(nextQ) :
                  i # a.action + 1 => ret'.target[i] = nextQ[i]
            /\ ret'.target[a.action + 1] =
                  IF a.done THEN Float(a.reward)
                  ELSE FAdd(Float(a.reward), FMul(gamma, Greatest(nextQ)))]_vars

\* C1 witness: a terminal transition trained with a discount of 1 on a next
\* state whose greatest value is not 0; the target component is the reward.
C1_Witness ==
    /\ ret.op = "Train" /\ ret.panic = "none"
    /\ ret.args.done /\ gamma = Float(1)
    /\ ret.args.state # ret.args.nextState
    /\ ret.target[ret.args.action + 1] = Float(ret.args.reward)
    /\ \E i \in 1..Len(ret.target) :
          i # ret.args.action + 1 /\ ret.target[i] # Float(0)

\* The gradient-descent step of C2 on a matrix: p - lr * grad.
DescentMat(p, lr, grad) ==
    [i \in 1..Len(p) |->
        [j \in 1..Len(p[i]) |-> FSub(p[i][j], FMul(lr, grad[i][j]))]]

\* The gradient-descent step of C2 on a vector: p - lr * grad.
DescentVec(p, lr, grad) == [i \in 1..Len(p) |-> FSub(p[i], FMul(lr, grad[i]))]

\* C2: a Backward call that returns leaves each of W1, b1, W2, b2 equal to
\* its value before the call minus learningRate times its gradient
\* (outer(predicted - target, h), predicted - target, outer(delta_h, state),
\* delta_h); with learningRate = 0 all four are unchanged.
C2_GradientStep ==
    [][(ret'.op = "Backward" /\ ret'.panic = "none") =>
        LET a    == ret'.args
            x    == heap[a.state]
            h    == Hidden(qNetwork, x)
            dOut == SubVec(a.prediction, a.target)
            dH   == HiddenError(qNetwork, h, dOut)
        IN  /\ qNetwork'.w2 = DescentMat(qNetwork.w2, a.lr, Outer(Float(1), dOut, h))
            /\ qNetwork'.b2 = DescentVec(qNetwork.b2, a.lr, dOut)
            /\ qNetwork'.w1 = DescentMat(qNetwork.w1, a.lr, Outer(Float(1), dH, x))
            /\ qNetwork'.b1 = DescentVec(qNetwork.b1, a.lr, dH)
            /\ (a.lr = Float(0) => qNetwork' = qNetwork)]_vars

\* C3: a buffer of capacity C >= 1 holds exactly the last min(n, C) of the
\* n experiences added, in insertion order, and never more than C.
C3_LastAddedInOrder ==
    size >= 1 =>
        LET n == Len(added)
            m == Min(n, size)
        IN  /\ Len(buffer) = m
            /\ Len(buffer) <= size
            /\ \A i \in 1..m : buffer[i] = added[n - m + i].exp

\* C3 witness: capacity 2 after three Adds of which the first two differ;
\* the first is gone and the other two are held in order.
C3_Witness ==
    /\ size = 2 /\ Len(added) = 3
    /\ added[1].exp # added[2].exp /\ added[2].exp # added[3].exp
    /\ buffer = <<added[2].exp, added[3].exp>>

\* C4: a Train call given a state or nextState whose length is not
\* inputSize, or an action outside [0, outputSize), fails with the network
\* as it was before the call; any other Train call returns with all four
\* tensors assigned.
C4_AllOrNothing ==
    [][ret'.op = "Train" =>
        LET a      == ret'.args
            badLen == \/ Len(heap[a.state]) # InputSize
                      \/ Len(heap[a.nextState]) # InputSize
            badAct == a.action < 0 \/ a.action >= OutputSize
        IN  /\ (badLen \/ badAct) =>
                  /\ ret'.panic \in {"DimensionMismatch", "IndexOutOfRange"}
                  /\ qNetwork' = qNetwork
                  /\ ret'.wrote = {}
            /\ ~(badLen \/ badAct) =>
                  /\ ret'.panic = "none"
                  /\ ret'.wrote = AllTensors]_vars

\* C4 witness: a Train call whose nextState and action are in order and
\* whose state is short has failed, the last of the checks Train makes.
C4_Witness ==
    /\ ret.op = "Train" /\ ret.panic = "DimensionMismatch"
    /\ Len(heap[ret.args.state]) # InputSize
    /\ Len(heap[ret.args.nextState]) = InputSize
    /\ ret.args.action \in 0..(OutputSize - 1)

\* C5: for a state of length inputSize and numActions >= 1, the index
\* EpsilonGreedyPolicy returns is in [0, numActions), on either branch.
C5_ActionInRange ==
    (/\ ret.op = "EpsilonGreedyPolicy" /\ ret.panic = "none"
     /\ ret.args.numActions >= 1
     /\ Len(heap[ret.args.state]) = InputSize)
    => (0 <= ret.value /\ ret.value < ret.args.numActions)

\* C6: with epsilon = 0 EpsilonGreedyPolicy takes the greedy branch, and
\* on a state of length inputSize returns the lowest index at which
\* Predict(state) is greatest.
C6_GreedyFirstMax ==
    (ret.op = "EpsilonGreedyPolicy" /\ epsilon = Float(0)) =>
        /\ ret.branch = "greedy"
        /\ Len(heap[ret.args.state]) = InputSize =>
              /\ ret.panic = "none"
              /\ ret.value =
                    LowestMaxIndex(Predict(qNetwork, heap[ret.args.state]).out)

\* C6 witness: epsilon = 0 and a state on which both actions have the same
\* value; action 0 is returned.
C6_Witness ==
    /\ ret.op = "EpsilonGreedyPolicy" /\ epsilon = Float(0)
    /\ ret.panic = "none" /\ ret.value = 0
    /\ LET out == Predict(qNetwork, heap[ret.args.state]).out
       IN  out[1] = out[2]

C8_CapacityZeroAdd ==
    (size = 0 /\ ret.op = "Add") => (ret.panic = "none" /\ Len(buffer) = 0)

\* C9: every experience the buffer holds has the State and NextState
\* contents it had when it was added, whatever the caller has since done
\* to the slices it passed in.
C9_StoredUnchanged ==
    size >= 1 =>
        \A i \in 1..Len(buffer) :
            LET e == added[Len(added) - Len(buffer) + i]
            IN  /\ heap[buffer[i].State] = e.State
                /\ heap[buffer[i].NextState] = e.NextState

\* The buffer as a reader of it sees it: each experience with the contents
\* of its slices.
BufferContents ==
    [i \in 1..Len(buffer) |->
        [exp |-> buffer[i], State |-> heap[buffer[i].State],
         NextState |-> heap[buffer[i].NextState]]]

\* C10: a Train call leaves the replay buffer's contents and capacity and
\* the agent's gamma, epsilon and learningRate as they were.
C10_TrainFrame ==
    [][ret'.op = "Train" =>
        /\ BufferContents' = BufferContents
        /\ buffer' = buffer /\ size' = size
        /\ gamma' = gamma /\ epsilon' = epsilon
        /\ learningRate' = learningRate]_vars

\* C10 witness: a Train call has updated the network of an agent whose
\* buffer holds an experience.
C10_Witness ==
    /\ ret.op = "Train" /\ ret.panic = "none" /\ updates > 0
    /\ Len(buffer) > 0

\* C11: a network built with positive sizes keeps, under calls of Predict,
\* EpsilonGreedyPolicy, Backward and Train with valid arguments, the shapes
\* W1 = hidden x input, b1 = hidden, W2 = output x hidden, b2 = output; no
\* such call fails, and Predict returns a vector of length outputSize.
C11_ShapesKept ==
    /\ qNetwork.inputSize > 0 /\ qNetwork.hiddenSize > 0
    /\ qNetwork.outputSize > 0
    /\ Shaped(qNetwork)
    /\ ret.op \in {"Predict", "EpsilonGreedyPolicy", "Backward", "Train"} =>
          ret.panic = "none"
    /\ ret.op = "Predict" => IsVec(ret.value, qNetwork.outputSize)

\* C11 witness: a network whose three sizes all differ has been updated by
\* Train, and Predict has then returned outputSize values.
C11_Witness ==
    /\ qNetwork.inputSize # qNetwork.hiddenSize
    /\ qNetwork.hiddenSize # qNetwork.outputSize
    /\ qNetwork.inputSize # qNetwork.outputSize
    /\ updates > 0 /\ qNetwork \notin ShapeNets
    /\ ret.op = "Predict" /\ ret.panic = "none"
    /\ Len(ret.value) = qNetwork.outputSize

\* C12: Sample(k) on a buffer holding at least one experience returns, for
\* every k >= 0 and also for k greater than the number held, exactly k
\* experiences, each equal to one the buffer holds, and leaves the buffer's
\* contents and order as they were.
C12_SampleReturnsK ==
    [][(ret'.op = "Sample" /\ Len(buffer) > 0 /\ ret'.args.batchSize >= 0) =>
        /\ ret'.panic = "none"
        /\ Len(ret'.value) = ret'.args.batchSize
        /\ \A i \in 1..Len(ret'.value) :
              \E j \in 1..Len(buffer) : ret'.value[i] = buffer[j]
        /\ buffer' = buffer
        /\ BufferContents' = BufferContents]_vars

\* C12 witness: Sample(2) on a buffer holding one experience has returned
\* that experience twice.
C12_Witness ==
    /\ ret.op = "Sample" /\ ret.args.batchSize = 2 /\ ret.panic = "none"
    /\ Len(buffer) = 1
    /\ ret.value = <<buffer[1], buffer[1]>>

\* The caller's slices a call was passed.
Passed(r) ==
    IF r.op = "Train" THEN {r.args.state, r.args.nextState}
    ELSE IF r.op \in {"Predict", "EpsilonGreedyPolicy", "Backward", "Normalize"}
    THEN {r.args.state}
    ELSE {}

\* C13: Predict, EpsilonGreedyPolicy, Train, Backward and Normalize leave
\* every element of the state vectors they are passed as it was; Normalize
\* works on a copy, so what it returns is not the caller's slice.
C13_CallerVectorsReadOnly ==
    [][/\ \A s \in Passed(ret') : heap'[s] = heap[s]
       /\ ret'.op = "Normalize" => ret'.value # ret'.args.state]_vars

\* C14: in a Backward call that returns, the hidden error is
\* (W2^T * (prediction - target)), W2 being the matrix of before the call,
\* times the finite-difference derivative of the activation at the
\* pre-activation w1 * state + b1; for the rectifier a unit whose
\* pre-activation is below -1e-4 has hidden error 0, a zero row in the
\* gradient of W1 and a zero entry in the gradient of b1, so that its
\* entry of b1 is not changed.
C14_HiddenErrorAtPreActivation ==
    [][(ret'.op = "Backward" /\ ret'.panic = "none") =>
        \A a \in {ret'.args} :
        \A x \in {heap[a.state]} :
        \A pre \in {PreActivation(qNetwork, x)} :
        \A dOut \in {SubVec(a.prediction, a.target)} :
        \A dH \in {HiddenError(qNetwork, Hidden(qNetwork, x), dOut)} :
            /\ dH = MulElemVec(MulVec(T(qNetwork.w2), dOut),
                               applyDerivative(pre))
            /\ \A i \in 1..Len(pre) :
                  FLess(pre[i], FNeg(DerivStep)) =>
                      /\ dH[i] = Float(0)
                      /\ \A j \in 1..Len(x) :
                            Outer(Float(1), dH, x)[i][j] = Float(0)
                      /\ qNetwork'.b1[i] = qNetwork.b1[i]]_vars

====
